---- MODULE Spec2Model ----
(***************************************************************************)
(* FastX Voice Generator: the App component (src/App.tsx), the speech      *)
(* service (src/services/geminiService.ts) and the RadarVisualizer         *)
(* component (src/components/RadarVisualizer.tsx) as state machines.       *)
(*                                                                         *)
(* One step of the model is one browser task together with the microtasks  *)
(* it triggers: a click handler up to its first real suspension, the       *)
(* settling of a network request with the handler's continuation, an       *)
(* 'ended' event of an audio node, an animation frame.  React state that   *)
(* is written several times inside one task has the value of the last      *)
(* write when the task ends.                                               *)
(***************************************************************************)
EXTENDS Integers, Sequences, FiniteSets, TLC

\* ------------------------------------------------------------- bounds
MaxRuns == 2          \* accepted preview/generation actions per behaviour
MaxChannels == 2      \* channels of a buffer handed to the WAV encoder
MaxSamples == 2       \* samples per channel of such a buffer

\* ---------------------------------------------------------- constants
MAX_CHARS == 5000

Null == "null"

VOICE_OPTIONS ==
  << [id |-> "v_jason",  apiVoice |-> "Puck",   displayName |-> "Jason"],
     [id |-> "v_mike",   apiVoice |-> "Charon", displayName |-> "Mike"],
     [id |-> "v_henry",  apiVoice |-> "Fenrir", displayName |-> "Henry"],
     [id |-> "v_jerry",  apiVoice |-> "Puck",   displayName |-> "Jerry"],
     [id |-> "v_thomas", apiVoice |-> "Charon", displayName |-> "Thomas"],
     [id |-> "v_james",  apiVoice |-> "Fenrir", displayName |-> "James"] >>

\* The personas the user clicks on, as indices of VOICE_OPTIONS.
ClickableVoices == {1, 2}

\* ------------------------------------------------------------- text
\* A text is a sequence of runs <<character, count>>; " " stands for any
\* white space character, "a" for any other.
EmptyText == << >>

DEFAULT_TEXT == << <<"a", 185>> >>

Texts ==
  { EmptyText,
    DEFAULT_TEXT,
    << <<" ", 3>> >>,
    << <<"a", 5000>> >>,
    << <<"a", 5001>> >> }

RECURSIVE TextLength(_)
TextLength(t) == IF t = << >> THEN 0 ELSE t[1][2] + TextLength(Tail(t))

RECURSIVE TrimStart(_)
TrimStart(t) ==
  IF t = << >> THEN t
  ELSE IF t[1][1] = " " \/ t[1][2] = 0 THEN TrimStart(Tail(t)) ELSE t

RECURSIVE TrimEnd(_)
TrimEnd(t) ==
  IF t = << >> THEN t
  ELSE IF t[Len(t)][1] = " " \/ t[Len(t)][2] = 0
       THEN TrimEnd(SubSeq(t, 1, Len(t) - 1)) ELSE t

Trim(t) == TrimEnd(TrimStart(t))

\* ------------------------------------------------------------- state
VARIABLES
  text, selectedVoiceId, isLoading, isPlaying, previewVoiceId,
  audioBuffer, downloadUrl,       \* 0 is null, r the buffer / object URL of run r
  ctxState,                       \* audioContextRef.current.state
  sourceNodeRef,                  \* 0 is null, r the source node started by run r
  hasApiKey,                      \* API_KEY is a non-empty string
  runs,                           \* the accepted handler runs, in order of acceptance
  rejected,                       \* how the last handleGenerate call was turned down
  \* RadarVisualizer
  vizMounted,                     \* the component is mounted
  props,                          \* the props of its last render
  effectDeps,                     \* the props the installed effect closed over
  hasCleanup,                     \* the installed effect returned its cleanup
  canvasOk,                       \* canvasRef.current and its 2d context exist
  rafPending,                     \* the animation-frame callbacks not yet run
  requestRef,                     \* requestRef.current, 0 is null
  lastFrame,                      \* what the last draw() call drew
  \* audioBufferToWav
  wavBuffer,                      \* the AudioBuffer handed to the encoder
  wavBlob                         \* the Blob it returned

appVars == << text, selectedVoiceId, isLoading, isPlaying, previewVoiceId,
              audioBuffer, downloadUrl, ctxState, sourceNodeRef, hasApiKey,
              runs, rejected >>

vizVars == << vizMounted, props, effectDeps, hasCleanup, canvasOk, rafPending,
              requestRef, lastFrame >>

wavVars == << wavBuffer, wavBlob >>

vars == << appVars, vizVars, wavVars >>

RunIds == 1 .. Len(runs)

\* A run: kind "generate" | "preview"; voice, the index of the persona the
\* handler holds until it returns, 0 from then on; stage
\* "resume" (awaiting AudioContext.resume) | "inflight" (awaiting the cloud
\* call) | "played" (the call succeeded, playAudio ran) | "failed"; sent, the
\* generateContent calls made for it; report, how its failure was reported;
\* node, its source node: "none" | "playing" | "ending" (silent, 'ended' event
\* queued) | "ended"; cleared, Reset was pressed while it was in flight.
NewRun(k, v) ==
  [kind |-> k, voice |-> v, stage |-> "resume", sent |-> 0, report |-> "none",
   node |-> "none", cleared |-> FALSE]

\* The handler of the run has returned: what it closed over is gone.
Returned(run) == [run EXCEPT !.voice = 0]

\* ----------------------------------------------------------- helpers
\* stop() forgotten: the held node keeps playing.
StopNodeForgotten(rs, n) == rs

\* AudioBufferSourceNode.stop(): a playing node falls silent and its 'ended'
\* event is queued; on a node that has already stopped it does nothing.
StopNode(rs, n) ==
  IF n # 0 /\ rs[n].node = "playing" THEN [rs EXCEPT ![n].node = "ending"] ELSE rs

\* stopAudio's effect on the audio nodes.
stopAudio(rs, ref) == IF ref # 0 THEN StopNode(rs, ref) ELSE rs

\* playAudio returning early when no node is held.
playAudioOnlyReplaces(rs, ref, r) ==
  IF ref = 0 THEN rs ELSE [StopNode(rs, ref) EXCEPT ![r].node = "playing"]

\* playAudio's effect on the audio nodes: stop the held node, start r's.
playAudio(rs, ref, r) ==
  LET stopped == IF ref # 0 THEN StopNode(rs, ref) ELSE rs
  IN  [stopped EXCEPT ![r].node = "playing"]

\* stopAudio's writes to the React state: setIsPlaying(false),
\* setPreviewVoiceId(null).
StopAudioState == [isPlaying |-> FALSE, previewVoiceId |-> Null]

\* The value a state variable has when the task ends: that of its last write.
LastWrite(writes) == writes[Len(writes)]

FindVoice(id) == { i \in 1 .. Len(VOICE_OPTIONS) : VOICE_OPTIONS[i].id = id }

\* The Generate button's disabled attribute.  (audioContextRef.current and
\* analyserRef.current are set by the mount effect and never cleared, so the
\* handlers' tests of them always pass.)
GenerateDisabled == (isLoading /\ ~isPlaying) \/ TextLength(text) > MAX_CHARS

\* The continuation of a handler that awaited resume() has priority over
\* every other task: it runs in the microtasks of the task that resolved it.
Resumed == \E r \in RunIds : runs[r].stage = "resume" /\ ctxState = "running"

AppInit ==
  /\ text = DEFAULT_TEXT
  /\ selectedVoiceId = VOICE_OPTIONS[2].id
  /\ isLoading = FALSE
  /\ isPlaying = FALSE
  /\ previewVoiceId = Null
  /\ audioBuffer = 0
  /\ downloadUrl = 0
  /\ ctxState \in {"suspended", "running"}
  /\ sourceNodeRef = 0
  /\ hasApiKey \in BOOLEAN
  /\ runs = << >>
  /\ rejected = "none"

\* ------------------------------------------------------ generateSpeech
\* The call up to its first suspension: without an API key it throws before
\* any request is made; otherwise one generateContent request is sent.
generateSpeech(run) ==
  IF ~hasApiKey THEN [run EXCEPT !.stage = "failed"]
  ELSE [run EXCEPT !.stage = "inflight", !.sent = @ + 1]

\* A retry: the failed request is sent once more.
generateSpeechRetries(run) == [run EXCEPT !.sent = @ + 1]

\* The request settles with an error, or with a response that holds no audio
\* data: generateSpeech logs and rethrows.
generateSpeechRejects(run) == [run EXCEPT !.stage = "failed"]

\* ------------------------------------------------------- handlePreview
\* catch of handlePreview: console.error, setPreviewVoiceId(null).
PreviewCatch(run) == [run EXCEPT !.report = "console"]

\* handlePreview after `await ensureAudioContext()`, to the end of its task.
\* setPreviewVoiceId(voice.id) is followed by stopAudio(), whose
\* setPreviewVoiceId(null) is the last write of the task.
PreviewStart(r, rs) ==
  LET stopped == stopAudio(rs, sourceNodeRef)
      called  == generateSpeech(stopped[r])
      threw   == called.stage = "failed"
  IN  /\ previewVoiceId' =
           LastWrite(<< VOICE_OPTIONS[rs[r].voice].id, StopAudioState.previewVoiceId >>
                       \o (IF threw THEN << Null >> ELSE << >>))
      /\ isPlaying' = StopAudioState.isPlaying
      /\ sourceNodeRef' = 0
      /\ runs' = [stopped EXCEPT ![r] = IF threw THEN Returned(PreviewCatch(called))
                                       ELSE called]
      /\ rejected' = "none"
      /\ UNCHANGED << text, selectedVoiceId, isLoading, audioBuffer, downloadUrl,
                      hasApiKey >>

ClickPreview(v) ==
  /\ UNCHANGED << vizVars, wavVars >>
  /\ ~Resumed
  /\ Len(runs) < MaxRuns
  /\ previewVoiceId = Null
  /\ IF ctxState = "suspended"
     THEN /\ runs' = Append(runs, NewRun("preview", v))
          /\ rejected' = "none"
          /\ UNCHANGED << text, selectedVoiceId, isLoading, isPlaying,
                          previewVoiceId, audioBuffer, downloadUrl, ctxState,
                          sourceNodeRef, hasApiKey >>
     ELSE /\ PreviewStart(Len(runs) + 1, Append(runs, NewRun("preview", v)))
          /\ UNCHANGED ctxState

\* ------------------------------------------------------ handleGenerate
\* catch of handleGenerate without its alert.
GenerateCatchSilent(run) == [run EXCEPT !.report = "console"]

\* catch of handleGenerate: console.error, alert(...).
GenerateCatch(run) == [run EXCEPT !.report = "alert"]

\* finally of handleGenerate without its setIsLoading(false).
GenerateFinallyMissing(loading) == loading

\* finally of handleGenerate: setIsLoading(false).
GenerateFinally(loading) == FALSE

\* handleGenerate after `await ensureAudioContext()`, to the end of its task.
GenerateStart(r, rs) ==
  LET stopped == stopAudio(rs, sourceNodeRef)
      called  == generateSpeech(stopped[r])
      threw   == called.stage = "failed"
  IN  /\ isLoading' = (IF threw THEN GenerateFinally(TRUE) ELSE TRUE)
      /\ audioBuffer' = 0
      /\ downloadUrl' = 0
      /\ isPlaying' = StopAudioState.isPlaying
      /\ previewVoiceId' = StopAudioState.previewVoiceId
      /\ sourceNodeRef' = 0
      /\ runs' = [stopped EXCEPT ![r] = IF threw THEN Returned(GenerateCatch(called))
                                       ELSE called]
      /\ rejected' = "none"
      /\ UNCHANGED << text, selectedVoiceId, hasApiKey >>

\* The guards with `!text` in place of `!text.trim()`.
GenerateRejectsUntrimmed ==
  IF text = << >> THEN "blank"
  ELSE IF TextLength(text) > MAX_CHARS THEN "limit"
  ELSE IF FindVoice(selectedVoiceId) = {} THEN "voice"
  ELSE "none"

\* Why handleGenerate returns before doing anything: "none" when it does not.
GenerateRejects ==
  IF Trim(text) = << >> THEN "blank"
  ELSE IF TextLength(text) > MAX_CHARS THEN "limit"
  ELSE IF FindVoice(selectedVoiceId) = {} THEN "voice"
  ELSE "none"

handleGenerate ==
  /\ UNCHANGED << vizVars, wavVars >>
  /\ ~Resumed
  /\ IF GenerateRejects # "none"
     THEN /\ rejected' = GenerateRejects
          /\ UNCHANGED << text, selectedVoiceId, isLoading, isPlaying,
                          previewVoiceId, audioBuffer, downloadUrl, ctxState,
                          sourceNodeRef, hasApiKey, runs >>
     ELSE /\ Len(runs) < MaxRuns
          /\ LET v == CHOOSE i \in FindVoice(selectedVoiceId) : TRUE
                 rs == Append(runs, NewRun("generate", v))
             IN IF ctxState = "suspended"
                THEN /\ runs' = rs
                     /\ rejected' = "none"
                     /\ UNCHANGED << text, selectedVoiceId, isLoading, isPlaying,
                                     previewVoiceId, audioBuffer, downloadUrl,
                                     ctxState, sourceNodeRef, hasApiKey >>
                ELSE /\ GenerateStart(Len(runs) + 1, rs)
                     /\ UNCHANGED ctxState

\* A click on the Generate button: a disabled button delivers no click.
ClickGenerate == ~GenerateDisabled /\ handleGenerate

\* --------------------------------------------------- ensureAudioContext
\* resume() settles: the context runs.
ResumeDone ==
  /\ UNCHANGED << vizVars, wavVars >>
  /\ ctxState = "suspended"
  /\ \E r \in RunIds : runs[r].stage = "resume"
  /\ ctxState' = "running"
  /\ rejected' = "none"
  /\ UNCHANGED << text, selectedVoiceId, isLoading, isPlaying, previewVoiceId,
                  audioBuffer, downloadUrl, sourceNodeRef, hasApiKey, runs >>

\* The handlers that awaited resume() continue, in the order of their clicks.
ContinueAfterResume ==
  /\ UNCHANGED << vizVars, wavVars >>
  /\ Resumed
  /\ LET r == CHOOSE i \in RunIds :
                 /\ runs[i].stage = "resume"
                 /\ \A j \in RunIds : runs[j].stage = "resume" => i <= j
     IN IF runs[r].kind = "preview" THEN PreviewStart(r, runs)
        ELSE GenerateStart(r, runs)
  /\ UNCHANGED ctxState

\* ------------------------------------------------ the cloud call settles
RequestSucceeds(r) ==
  /\ UNCHANGED << vizVars, wavVars >>
  /\ ~Resumed
  /\ runs[r].stage = "inflight"
  /\ runs' = [playAudio(runs, sourceNodeRef, r) EXCEPT
                ![r] = Returned([@ EXCEPT !.stage = "played"])]
  /\ sourceNodeRef' = r
  /\ IF runs[r].kind = "generate"
     THEN /\ audioBuffer' = r
          /\ downloadUrl' = r
          /\ isPlaying' = TRUE
          /\ isLoading' = GenerateFinally(isLoading)
     ELSE UNCHANGED << audioBuffer, downloadUrl, isPlaying, isLoading >>
  /\ rejected' = "none"
  /\ UNCHANGED << text, selectedVoiceId, previewVoiceId, ctxState, hasApiKey >>

RequestFails(r) ==
  /\ UNCHANGED << vizVars, wavVars >>
  /\ ~Resumed
  /\ runs[r].stage = "inflight"
  /\ LET thrown == generateSpeechRejects(runs[r])
     IN IF runs[r].kind = "generate"
        THEN /\ runs' = [runs EXCEPT ![r] = Returned(GenerateCatch(thrown))]
             /\ isLoading' = GenerateFinally(isLoading)
             /\ UNCHANGED previewVoiceId
        ELSE /\ runs' = [runs EXCEPT ![r] = Returned(PreviewCatch(thrown))]
             /\ previewVoiceId' = Null
             /\ UNCHANGED isLoading
  /\ rejected' = "none"
  /\ UNCHANGED << text, selectedVoiceId, isPlaying, audioBuffer, downloadUrl,
                  ctxState, sourceNodeRef, hasApiKey >>

\* ------------------------------------------------------- audio nodes
\* The buffer has been played to its end: the node's 'ended' event is queued.
PlaybackEnds(n) ==
  /\ UNCHANGED << vizVars, wavVars >>
  /\ ~Resumed
  /\ runs[n].node = "playing"
  /\ runs' = [runs EXCEPT ![n].node = "ending"]
  /\ rejected' = "none"
  /\ UNCHANGED << text, selectedVoiceId, isLoading, isPlaying, previewVoiceId,
                  audioBuffer, downloadUrl, ctxState, sourceNodeRef, hasApiKey >>

\* source.onended: the callback playAudio was given.
OnEnded(n) ==
  /\ UNCHANGED << vizVars, wavVars >>
  /\ ~Resumed
  /\ runs[n].node = "ending"
  /\ runs' = [runs EXCEPT ![n].node = "ended"]
  /\ IF runs[n].kind = "generate"
     THEN isPlaying' = FALSE /\ UNCHANGED previewVoiceId
     ELSE previewVoiceId' = Null /\ UNCHANGED isPlaying
  /\ rejected' = "none"
  /\ UNCHANGED << text, selectedVoiceId, isLoading, audioBuffer, downloadUrl,
                  ctxState, sourceNodeRef, hasApiKey >>

\* --------------------------------------------------------- handleClear
MarkCleared(rs) ==
  [i \in 1 .. Len(rs) |->
     IF rs[i].stage = "inflight" THEN [rs[i] EXCEPT !.cleared = TRUE] ELSE rs[i]]

handleClear ==
  /\ UNCHANGED << vizVars, wavVars >>
  /\ ~Resumed
  /\ text' = EmptyText
  /\ audioBuffer' = 0
  /\ downloadUrl' = 0
  /\ runs' = MarkCleared(stopAudio(runs, sourceNodeRef))
  /\ sourceNodeRef' = 0
  /\ isPlaying' = StopAudioState.isPlaying
  /\ previewVoiceId' = StopAudioState.previewVoiceId
  /\ rejected' = "none"
  /\ UNCHANGED << selectedVoiceId, isLoading, ctxState, hasApiKey >>

\* ------------------------------------------------------- plain inputs
SetText(t) ==
  /\ UNCHANGED << vizVars, wavVars >>
  /\ ~Resumed
  /\ text' = t
  /\ rejected' = "none"
  /\ UNCHANGED << selectedVoiceId, isLoading, isPlaying, previewVoiceId,
                  audioBuffer, downloadUrl, ctxState, sourceNodeRef, hasApiKey,
                  runs >>

SetSelectedVoiceId(v) ==
  /\ UNCHANGED << vizVars, wavVars >>
  /\ ~Resumed
  /\ selectedVoiceId' = VOICE_OPTIONS[v].id
  /\ rejected' = "none"
  /\ UNCHANGED << text, isLoading, isPlaying, previewVoiceId, audioBuffer,
                  downloadUrl, ctxState, sourceNodeRef, hasApiKey, runs >>

AppEvents ==
  \/ \E v \in ClickableVoices : ClickPreview(v)
  \/ ResumeDone
  \/ ContinueAfterResume
  \/ \E r \in RunIds : RequestSucceeds(r)
  \/ \E r \in RunIds : RequestFails(r)
  \/ \E n \in RunIds : PlaybackEnds(n)
  \/ \E n \in RunIds : OnEnded(n)
  \/ handleClear
  \/ \E t \in Texts : SetText(t)
  \/ \E v \in ClickableVoices : SetSelectedVoiceId(v)

\* ===================================================== RadarVisualizer
FftSize == 256
Bars == 64

\* AnalyserNode.frequencyBinCount: half the FFT size.
frequencyBinCount == FftSize \div 2

\* `step` of draw(): Math.floor(analyser.frequencyBinCount / bars).
BarStep == frequencyBinCount \div Bars

\* The byte magnitudes getByteFrequencyData may deliver in one bin.
ByteSamples == {0, 10, 11, 255}

\* The frequency snapshots of a frame: flat ones, and a ramp.
FrequencyData ==
  { [k \in 0 .. frequencyBinCount - 1 |-> v] : v \in ByteSamples }
    \cup { [k \in 0 .. frequencyBinCount - 1 |-> 2 * k] }

\* dataArray[k] || 0: a typed array read out of range gives undefined.
ReadBin(data, k) == IF k \in DOMAIN data THEN data[k] ELSE 0

\* barHeight with the byte scaled by 256 in place of 255.
BarHeightBy256(value) ==
  IF (100 * value * 255) \div 256 > 4 * 255
  THEN (100 * value * 255) \div 256 ELSE 4 * 255

\* barHeight of draw(), times 255: Math.max(4, (value / 255) * 100).
BarHeight255(value) == IF 100 * value > 4 * 255 THEN 100 * value ELSE 4 * 255

\* Bar i of draw(), i = 0 .. bars-1: the bin it reads, its length times 255,
\* and its angle as a fraction num/den of a full turn, counted from the top.
Bar(data, i) ==
  [bin |-> i * BarStep,
   height255 |-> BarHeight255(ReadBin(data, i * BarStep)),
   num |-> i, den |-> Bars]

\* What draw() paints with the isPlaying and analyser it closed over.
Draw(isP, an, data) ==
  IF an /\ isP
  THEN [mode |-> "bars", isPlaying |-> isP, analyser |-> an, data |-> data,
        bars |-> [j \in 1 .. Bars |-> Bar(data, j - 1)]]
  ELSE [mode |-> "idle", isPlaying |-> isP, analyser |-> an, data |-> data,
        bars |-> << >>]

NoData == [k \in {} |-> 0]

\* A cleanup that cancels nothing.
CancelNothing(pending, id) == pending

\* cancelAnimationFrame(id)
CancelAnimationFrame(pending, id) == { cb \in pending : cb.id # id }

\* The handle of a new requestAnimationFrame call.  Handles are only ever
\* compared with requestRef.current and with the pending callbacks, so the
\* smallest handle held by neither stands for the browser's next one.
FreshHandle(pending, ref) ==
  CHOOSE h \in 1 .. Cardinality(pending) + 2 :
    /\ h # ref
    /\ \A cb \in pending : cb.id # h
    /\ \A g \in 1 .. h - 1 : g = ref \/ \E cb \in pending : cb.id = g

\* The cleanup the installed effect returned.
EffectCleanup(pending, ref) ==
  IF hasCleanup /\ ref # 0 THEN CancelAnimationFrame(pending, ref) ELSE pending

VizInit ==
  /\ vizMounted = TRUE
  /\ props = [isPlaying |-> FALSE, analyser |-> FALSE]
  /\ effectDeps = props
  /\ canvasOk \in BOOLEAN
  /\ hasCleanup = canvasOk
  /\ rafPending = IF canvasOk
                  THEN {[id |-> 1, isPlaying |-> FALSE, analyser |-> FALSE]}
                  ELSE {}
  /\ requestRef = (IF canvasOk THEN 1 ELSE 0)
  /\ lastFrame = [mode |-> "none", isPlaying |-> FALSE, analyser |-> FALSE,
                  data |-> NoData, bars |-> << >>]

\* App renders again and hands the component new props.  analyserRef.current
\* is null in App's first render and an AnalyserNode in every later one.  The
\* effects of a render are run before the next render starts.
ParentRender(p, a) ==
  /\ vizMounted
  /\ effectDeps = props
  /\ props.analyser => a
  /\ props' = [isPlaying |-> p, analyser |-> a]
  /\ props' # props
  /\ UNCHANGED << vizMounted, effectDeps, hasCleanup, canvasOk, rafPending,
                  requestRef, lastFrame >>
  /\ UNCHANGED << appVars, wavVars >>

\* [isPlaying, analyser] changed: the old effect's cleanup, then the effect.
RunEffect ==
  /\ vizMounted
  /\ effectDeps # props
  /\ LET cleaned == EffectCleanup(rafPending, requestRef)
         h == FreshHandle(cleaned, requestRef)
     IN IF canvasOk
        THEN /\ rafPending' = cleaned \cup
                    {[id |-> h, isPlaying |-> props.isPlaying,
                      analyser |-> props.analyser]}
             /\ requestRef' = h
             /\ hasCleanup' = TRUE
        ELSE /\ rafPending' = cleaned
             /\ hasCleanup' = FALSE
             /\ UNCHANGED requestRef
  /\ effectDeps' = props
  /\ UNCHANGED << vizMounted, props, canvasOk, lastFrame >>
  /\ UNCHANGED << appVars, wavVars >>

\* An animation frame: the browser runs a pending callback, draw(), which
\* paints and requests the next frame.
Frame(cb, data) ==
  /\ cb \in rafPending
  /\ LET rest == rafPending \ {cb}
         h == FreshHandle(rest, requestRef)
     IN /\ rafPending' = rest \cup
               {[id |-> h, isPlaying |-> cb.isPlaying, analyser |-> cb.analyser]}
        /\ requestRef' = h
  /\ lastFrame' = Draw(cb.isPlaying, cb.analyser,
                       IF cb.analyser THEN data ELSE NoData)
  /\ UNCHANGED << vizMounted, props, effectDeps, hasCleanup, canvasOk >>
  /\ UNCHANGED << appVars, wavVars >>

\* The component unmounts: the installed effect's cleanup runs.
Unmount ==
  /\ vizMounted
  /\ vizMounted' = FALSE
  /\ rafPending' = EffectCleanup(rafPending, requestRef)
  /\ UNCHANGED << props, effectDeps, hasCleanup, canvasOk, requestRef, lastFrame >>
  /\ UNCHANGED << appVars, wavVars >>

NextViz ==
  \/ \E p \in BOOLEAN, a \in BOOLEAN : ParentRender(p, a)
  \/ RunEffect
  \/ \E cb \in rafPending, data \in FrequencyData : Frame(cb, data)
  \/ Unmount

\* ===================================================== audioBufferToWav
SampleRate == 24000

\* Float samples in halves: -3 is -1.5, 1 is 0.5, 2 is 1.0.
SampleValues == {-3, 0, 1}

WavBuffers ==
  UNION { { [numberOfChannels |-> c, length |-> n, sampleRate |-> SampleRate,
             channels |-> ch] :
            ch \in [1 .. c -> [1 .. n -> SampleValues]] } :
          c \in 1 .. MaxChannels, n \in 0 .. MaxSamples }

\* n as `width` little-endian bytes.
RECURSIVE LittleEndian(_, _)
LittleEndian(n, width) ==
  IF width = 0 THEN << >> ELSE << n % 256 >> \o LittleEndian(n \div 256, width - 1)

\* A float sample (in halves) clamped to [-1, 1] and scaled to a signed 16-bit
\* integer, as its two's complement.
Pcm16(s) ==
  LET c == IF s < -2 THEN -2 ELSE IF s > 2 THEN 2 ELSE s
      v == IF c < 0 THEN (c * 32768) \div 2 ELSE (c * 32767) \div 2
  IN  IF v < 0 THEN v + 65536 ELSE v

Ascii(str) ==
  CASE str = "RIFF" -> << 82, 73, 70, 70 >>
    [] str = "WAVE" -> << 87, 65, 86, 69 >>
    [] str = "fmt " -> << 102, 109, 116, 32 >>
    [] str = "data" -> << 100, 97, 116, 97 >>

\* The RIFF/WAVE header of a PCM16 file with dataLen bytes of samples.
WavHeader(b, dataLen) ==
  Ascii("RIFF") \o LittleEndian(36 + dataLen, 4) \o Ascii("WAVE")
    \o Ascii("fmt ") \o LittleEndian(16, 4) \o LittleEndian(1, 2)
    \o LittleEndian(b.numberOfChannels, 2) \o LittleEndian(b.sampleRate, 4)
    \o LittleEndian(b.sampleRate * b.numberOfChannels * 2, 4)
    \o LittleEndian(b.numberOfChannels * 2, 2) \o LittleEndian(16, 2)
    \o Ascii("data") \o LittleEndian(dataLen, 4)

\* The samples of frames i .. b.length, channel by channel within a frame.
RECURSIVE Interleave(_, _, _)
Interleave(b, i, c) ==
  IF i > b.length THEN << >>
  ELSE IF c > b.numberOfChannels THEN Interleave(b, i + 1, 1)
  ELSE LittleEndian(Pcm16(b.channels[c][i]), 2) \o Interleave(b, i, c + 1)

\* An encoder that writes the first channel only.
audioBufferToWavMono(b) ==
  LET first == [b EXCEPT !.numberOfChannels = 1]
      samples == Interleave(first, 1, 1)
  IN  WavHeader(b, Len(samples)) \o samples

audioBufferToWav(b) ==
  LET samples == Interleave(b, 1, 1)
  IN  WavHeader(b, Len(samples)) \o samples

WavIdle ==
  /\ wavBuffer = [numberOfChannels |-> 1, length |-> 0, sampleRate |-> SampleRate,
                  channels |-> [c \in {1} |-> << >>]]
  /\ wavBlob = [done |-> FALSE, bytes |-> << >>]

WavInit ==
  /\ wavBuffer \in WavBuffers
  /\ wavBlob = [done |-> FALSE, bytes |-> << >>]

EncodeWav ==
  /\ ~wavBlob.done
  /\ wavBlob' = [done |-> TRUE, bytes |-> audioBufferToWav(wavBuffer)]
  /\ UNCHANGED wavBuffer
  /\ UNCHANGED << appVars, vizVars >>

\* ====================================================== specifications
AppIdle ==
  /\ AppInit
  /\ ctxState = "suspended"
  /\ hasApiKey

VizIdle ==
  /\ VizInit
  /\ canvasOk

Init == AppInit /\ VizIdle /\ WavIdle

Next == ClickGenerate \/ AppEvents

Spec == Init /\ [][Next]_vars

\* The browser settles every request, resolves every resume() and runs every
\* continuation it has queued.
SettleRun(r) == r \in RunIds /\ (RequestSucceeds(r) \/ RequestFails(r))

FairSpec ==
  /\ Spec
  /\ \A r \in 1 .. MaxRuns : WF_vars(SettleRun(r))
  /\ WF_vars(ResumeDone)
  /\ WF_vars(ContinueAfterResume)

\* The handlers called directly, whatever the button's disabled attribute.
NextHandlers == handleGenerate \/ AppEvents

SpecHandlers == Init /\ [][NextHandlers]_vars

\* The visualizer under every sequence of renders its parent may make.
InitViz == AppIdle /\ VizInit /\ WavIdle

SpecViz == InitViz /\ [][NextViz]_vars

\* The encoder applied to every buffer within the bounds.
InitWav == AppIdle /\ VizIdle /\ WavInit

NextWav == EncodeWav

SpecWav == InitWav /\ [][NextWav]_vars

\* ========================================================= properties
Playing == { n \in RunIds : runs[n].node = "playing" }

Ending == { n \in RunIds : runs[n].node = "ending" }

\* The isPlaying prop App passes to RadarVisualizer.
VisualizerIsPlaying == isPlaying \/ previewVoiceId # Null

RECURSIVE SumSent(_)
SumSent(rs) == IF rs = << >> THEN 0 ELSE rs[1].sent + SumSent(Tail(rs))

\* C1: under every interleaving of clicks, request completions and
\* end-of-playback events, at most one audio source node is playing.
C1_AtMostOnePlaying == Cardinality(Playing) <= 1

\* C1's case: a node that was playing has been stopped and another one plays.
C1_Witness ==
  \E n \in RunIds, m \in RunIds :
    /\ runs[n].node = "ending"
    /\ runs[n].stage = "played"
    /\ runs[m].node = "playing"
    /\ sourceNodeRef = m

\* C2 as amended: every failed cloud call is caught; a generation's failure
\* is reported by an alert, a preview's failure on the console only.
C2_FailuresCaught ==
  \A r \in RunIds :
    runs[r].stage = "failed" =>
      runs[r].report = (IF runs[r].kind = "generate" THEN "alert" ELSE "console")

\* C2 as stated: every failed cloud call, of a generation and of a preview
\* alike, is reported through an alert.
C2_EveryFailureAlerts ==
  \A r \in RunIds : runs[r].stage = "failed" => runs[r].report = "alert"

\* C2's case: a generation and a preview have both failed.
C2_Witness ==
  \E g \in RunIds, q \in RunIds :
    /\ runs[g].kind = "generate" /\ runs[g].stage = "failed" /\ runs[g].sent = 1
    /\ runs[q].kind = "preview" /\ runs[q].stage = "failed"

\* C3: whenever a source node is playing the visualizer's flag is true, and
\* when none is playing and every 'ended' event has been handled the flag is
\* false unless a preview request is still under way.
C3_VisualizationInSync ==
  /\ Playing # {} => VisualizerIsPlaying
  /\ (Playing = {} /\ Ending = {}) =>
       \/ ~VisualizerIsPlaying
       \/ \E r \in RunIds : /\ runs[r].kind = "preview"
                            /\ runs[r].stage \in {"resume", "inflight"}

\* C4 as amended: a run that has passed ensureAudioContext has made exactly
\* one generateContent request when an API key is configured and none when it
\* is missing, and no run makes a request before that or a second one later.
C4_OneRequestPerAction ==
  \A r \in RunIds :
    runs[r].sent = (IF runs[r].stage # "resume" /\ hasApiKey THEN 1 ELSE 0)

\* C4 as stated: once every accepted action has made its call, the requests
\* sent are as many as the accepted actions.
C4_RequestsEqualActions ==
  (\A r \in RunIds : runs[r].stage # "resume") => SumSent(runs) = Len(runs)

\* C4's case: a request has failed and has not been sent again.
C4_Witness ==
  \E r \in RunIds, q \in RunIds :
    /\ r # q
    /\ runs[r].stage = "failed" /\ runs[r].sent = 1
    /\ runs[q].stage = "played"

\* C5: a run in flight stays in flight until its request settles, whatever
\* the user does; when the request succeeds its buffer is started through
\* playAudio and, for a generation, audioBuffer and downloadUrl are set.
C5_NotCancellable ==
  [][\A r \in RunIds :
       runs[r].stage = "inflight" =>
         /\ Len(runs') >= r
         /\ runs'[r].kind = runs[r].kind
         /\ \/ runs'[r].stage = "inflight"
            \/ /\ runs'[r].stage = "failed"
               /\ Len(runs') = Len(runs)
               /\ runs'[r].cleared = runs[r].cleared
               /\ text' = text
            \/ /\ runs'[r].stage = "played"
               /\ runs'[r].node = "playing"
               /\ sourceNodeRef' = r
               /\ runs[r].kind = "generate" =>
                    audioBuffer' = r /\ downloadUrl' = r /\ isPlaying']_vars

\* C5's case: Reset was pressed while a generation was in flight, and the
\* generation's audio plays all the same.
C5_Witness ==
  \E r \in RunIds :
    /\ runs[r].kind = "generate"
    /\ runs[r].cleared
    /\ runs[r].stage = "played"
    /\ runs[r].node = "playing"
    /\ audioBuffer = r /\ downloadUrl = r

\* ---------------------------------------------------------------- C6
\* C6: the blob of a buffer with s samples per channel and c channels is
\* 44 + s*c*2 bytes long, and the encoder returns one for every buffer.
C6_WavByteLength ==
  /\ ~wavBlob.done => ENABLED EncodeWav
  /\ wavBlob.done =>
       Len(wavBlob.bytes) = 44 + wavBuffer.length * wavBuffer.numberOfChannels * 2

\* C6's case: a buffer of two channels of two samples has been encoded.
C6_Witness ==
  /\ wavBlob.done
  /\ wavBuffer.numberOfChannels = 2
  /\ wavBuffer.length = 2
  /\ Len(wavBlob.bytes) = 52

\* ---------------------------------------------------------------- C7
\* The byte the frame's snapshot holds in the bin of bar i.
FrameByte(i) == lastFrame.data[i * 2]

GenerateSettles(r, how) ==
  /\ r \in 1 .. Len(runs')
  /\ runs'[r].kind = "generate"
  /\ runs'[r].stage = how
  /\ r \in RunIds => runs[r].stage \notin {"played", "failed"}

\* No source node is started in this step.
NoNodeStarted ==
  \A n \in 1 .. Len(runs') :
    runs'[n].node = "playing" => n \in RunIds /\ runs[n].node = "playing"

\* Another generation run than r has succeeded and set what it sets.
OtherGenerationPlayed(r, g) ==
  /\ g \in 1 .. Len(runs')
  /\ g # r
  /\ runs'[g].kind = "generate"
  /\ runs'[g].stage = "played"

InvalidInput ==
  \/ \A i \in 1 .. Len(text) : text[i][1] = " " \/ text[i][2] = 0
  \/ TextLength(text) > 5000
  \/ \A i \in 1 .. Len(VOICE_OPTIONS) : VOICE_OPTIONS[i].id # selectedVoiceId

\* C9: a handleGenerate call turned down leaves isLoading, isPlaying,
\* previewVoiceId, audioBuffer, downloadUrl, the source node and the runs as
\* they were, and a call on invalid input is turned down: it accepts no
\* generation and sends nothing.
C9_InvalidInputNoEffect ==
  [][/\ rejected' # "none" =>
          /\ InvalidInput
          /\ UNCHANGED << isLoading, isPlaying, previewVoiceId, audioBuffer,
                          downloadUrl, sourceNodeRef, runs, ctxState >>
     /\ InvalidInput =>
          /\ Len(runs') > Len(runs) => runs'[Len(runs')].kind # "generate"
          /\ \A r \in RunIds :
               (runs[r].kind = "generate" /\ runs'[r].sent > runs[r].sent)
                 => runs[r].stage = "resume"]_vars

\* C9's case: handleGenerate was called on a text over the limit while the
\* audio of an earlier generation was playing.
C9_Witness ==
  /\ rejected = "limit"
  /\ isPlaying
  /\ Playing # {}
  /\ audioBuffer # 0

\* --------------------------------------------------------------- C10
\* C10: at most one animation-frame callback is pending, it is the one
\* requestRef holds, and none is pending once the component has unmounted.
C10_OneFrameLoop ==
  /\ Cardinality(rafPending) <= 1
  /\ \A cb \in rafPending : cb.id = requestRef
  /\ ~vizMounted => rafPending = {}

\* C10's case: the effect has run again after a change of its dependencies
\* and the new loop has drawn a frame and requested the next.
C10_Witness ==
  /\ effectDeps = [isPlaying |-> TRUE, analyser |-> TRUE]
  /\ lastFrame.mode = "bars"
  /\ Cardinality(rafPending) = 1

\* --------------------------------------------------------------- C11
\* The preview runs whose request is in flight.
PreviewsInFlight ==
  { r \in RunIds : runs[r].kind = "preview" /\ runs[r].stage = "inflight" }

\* The preview runs whose request is in flight or whose audio is playing.
PreviewsActive ==
  PreviewsInFlight \cup
    { r \in RunIds : runs[r].kind = "preview" /\ runs[r].node = "playing" }

\* C11: while a preview's request is in flight or its audio is playing,
\* previewVoiceId is non-null, and two preview requests are never in flight
\* together.
C11_OnePreviewAtATime ==
  /\ PreviewsActive # {} => previewVoiceId # Null
  /\ Cardinality(PreviewsInFlight) <= 1

\* C11's conclusion alone: two preview requests are never in flight together.
C11_NoTwoPreviewRequests == Cardinality(PreviewsInFlight) <= 1

====
